---------------------------- MODULE Spec2Model ----------------------------
(***************************************************************************)
(* json-to-env: flattening of a JSON value into KEY=VALUE entries.         *)
(*                                                                         *)
(* Two flatteners live in the repository: the library one (src/lib.rs,     *)
(* JsonParser::parse_value) and the one the command-line binary runs       *)
(* (src/main.rs, JsonParser::parse_keys).  Both are modelled, together     *)
(* with the formatter (impl Display for EnvVar).                           *)
(*                                                                         *)
(* Text is a sequence of one-character strings.  A JSON value is a record  *)
(* tagged by t; an object is the sequence of its <<name, value>> pairs in  *)
(* the order the map stores them (any order of distinct names: the order   *)
(* serde_json keeps depends on how it is built).                           *)
(***************************************************************************)
EXTENDS Naturals, Sequences, FiniteSets

VARIABLES
    json,          \* the parsed JSON value handed to the parsers
    options,       \* ParseOptions, shared by both parsers
    lib_returns,   \* lib.rs: what each call of parse returned, in call order
    lib_lines,     \* lib.rs: to_string of every entry of the last return
    formatted,     \* whether lib_lines has been produced
    main_vars,     \* main.rs: the parser's vars field
    main_returns,  \* main.rs: what each call of parse returned (&self.vars)
    environ        \* main.rs: the joined output of the last run

vars == <<json, options, lib_returns, lib_lines, formatted,
          main_vars, main_returns, environ>>

---------------------------------------------------------------------------
(* Characters and text                                                     *)

QUOTE == "\""
BSLASH == "\\"
LF == "\n"
TAB == "\t"
SPACE == " "

\* char::is_whitespace, restricted to the characters of the model
is_whitespace(c) == c \in {SPACE, LF, TAB}

Digits == <<"0", "1", "2", "3", "4", "5", "6", "7", "8", "9">>

\* the decimal text of an unsigned integer
RECURSIVE usize_to_string(_)
usize_to_string(n) ==
    IF n < 10 THEN <<Digits[n + 1]>>
    ELSE usize_to_string(n \div 10) \o <<Digits[(n % 10) + 1]>>

\* the concatenation of the first n of a sequence of sequences
RECURSIVE concat_upto(_, _)
concat_upto(seqs, n) ==
    IF n = 0 THEN <<>> ELSE concat_upto(seqs, n - 1) \o seqs[n]

flatten_reversed(seqs) ==
    concat_upto([i \in 1..Len(seqs) |-> seqs[Len(seqs) + 1 - i]], Len(seqs))

\* values.into_iter().flatten().collect()
flatten(seqs) == concat_upto(seqs, Len(seqs))

\* [String]::join(separator)
RECURSIVE join_upto(_, _, _)
join_upto(parts, sep, n) ==
    IF n = 0 THEN <<>>
    ELSE IF n = 1 THEN parts[1]
    ELSE join_upto(parts, sep, n - 1) \o sep \o parts[n]

join(parts, sep) == join_upto(parts, sep, Len(parts))

\* str::replace(chars, to): every character of s that is in chars becomes to
str_replace(s, chars, to) ==
    concat_upto([i \in 1..Len(s) |-> IF s[i] \in chars THEN to ELSE <<s[i]>>],
                Len(s))

\* str::trim_start / str::trim_end / str::trim
RECURSIVE trim_start(_)
trim_start(s) ==
    IF s # <<>> /\ is_whitespace(Head(s)) THEN trim_start(Tail(s)) ELSE s

RECURSIVE trim_end(_)
trim_end(s) ==
    IF s # <<>> /\ is_whitespace(s[Len(s)])
    THEN trim_end(SubSeq(s, 1, Len(s) - 1)) ELSE s

trim_start_only(s) == trim_start(s)

trim(s) == trim_end(trim_start(s))

---------------------------------------------------------------------------
(* serde_json::Value                                                       *)

JNull == [t |-> "Null"]
JBool(b) == [t |-> "Bool", b |-> b]
JNumber(n) == [t |-> "Number", n |-> n]
JString(s) == [t |-> "String", s |-> s]
JArray(items) == [t |-> "Array", a |-> items]
JObject(fields) == [t |-> "Object", o |-> fields]

is_array(v) == v.t = "Array"
is_object(v) == v.t = "Object"

\* serde_json's escaping of one character inside a JSON string
escape_char(c) ==
    CASE c = QUOTE -> <<BSLASH, QUOTE>>
      [] c = BSLASH -> <<BSLASH, BSLASH>>
      [] c = LF -> <<BSLASH, "n">>
      [] c = TAB -> <<BSLASH, "t">>
      [] OTHER -> <<c>>

json_quote(s) ==
    <<QUOTE>> \o concat_upto([i \in 1..Len(s) |-> escape_char(s[i])], Len(s))
              \o <<QUOTE>>

\* Value::to_string(): serde_json's Display, the compact JSON text
RECURSIVE value_to_string(_)
value_to_string(v) ==
    CASE v.t = "Null" -> <<"n", "u", "l", "l">>
      [] v.t = "Bool" ->
            IF v.b THEN <<"t", "r", "u", "e">> ELSE <<"f", "a", "l", "s", "e">>
      [] v.t = "Number" -> usize_to_string(v.n)
      [] v.t = "String" -> json_quote(v.s)
      [] v.t = "Array" ->
            <<"[">> \o join([i \in 1..Len(v.a) |-> value_to_string(v.a[i])], <<",">>)
                    \o <<"]">>
      [] v.t = "Object" ->
            <<"{">> \o join([i \in 1..Len(v.o) |->
                               json_quote(v.o[i][1]) \o <<":">>
                                   \o value_to_string(v.o[i][2])], <<",">>)
                    \o <<"}">>

---------------------------------------------------------------------------
(* ParseOptions, EnvVar and build_key (the same in lib.rs and main.rs)     *)

ParseOptions(key_separator, array_separator, enumerate_array) ==
    [key_separator |-> key_separator,
     array_separator |-> array_separator,
     enumerate_array |-> enumerate_array]

\* the tuple struct EnvVar(String, Value)
EnvVar(key, value) == <<key, value>>

build_key_always_separated(prefix, key, separator) == prefix \o separator \o key

build_key(prefix, key, separator) ==
    IF prefix = <<>> THEN key ELSE prefix \o separator \o key

---------------------------------------------------------------------------
(* lib.rs: JsonParser::parse_value                                         *)

has_complex_values_never(array) == FALSE

has_complex_values_all(array) ==
    \A i \in 1..Len(array) : is_object(array[i]) \/ is_array(array[i])

has_complex_values(array) ==
    \E i \in 1..Len(array) : is_object(array[i]) \/ is_array(array[i])

\* main.rs: the text a non-enumerated array collapses to
array_joined_quoted(array, opts) ==
    join([i \in 1..Len(array) |-> value_to_string(array[i])],
         opts.array_separator)

\* lib.rs: the text a non-enumerated array collapses to
array_joined(array, opts) ==
    join([i \in 1..Len(array) |->
            str_replace(value_to_string(array[i]), {BSLASH, QUOTE}, <<>>)],
         opts.array_separator)

RECURSIVE parse_value(_, _, _)

\* parse_value without its Value::Object arm: objects fall through to `_`
parse_value_no_object_arm(key, value, opts) ==
    IF is_array(value) THEN
        IF opts.enumerate_array \/ has_complex_values(value.a) THEN
            flatten([i \in 1..Len(value.a) |->
                parse_value(build_key(key, usize_to_string(i - 1),
                                      opts.key_separator),
                            value.a[i], opts)])
        ELSE parse_value(key, JString(array_joined(value.a, opts)), opts)
    ELSE <<EnvVar(trim(key), value)>>

parse_value(key, value, opts) ==
    IF is_array(value) THEN
        IF opts.enumerate_array \/ has_complex_values(value.a) THEN
            flatten([i \in 1..Len(value.a) |->
                parse_value(build_key(key, usize_to_string(i - 1),
                                      opts.key_separator),
                            value.a[i], opts)])
        ELSE parse_value(key, JString(array_joined(value.a, opts)), opts)
    ELSE IF is_object(value) THEN
        flatten([i \in 1..Len(value.o) |->
            parse_value(build_key(key, value.o[i][1], opts.key_separator),
                        value.o[i][2], opts)])
    ELSE <<EnvVar(trim(key), value)>>

\* lib.rs JsonParser::parse
parse(json_value, opts) == parse_value(<<>>, json_value, opts)

---------------------------------------------------------------------------
(* main.rs: JsonParser::parse_keys, which pushes onto the lines it is given *)

RECURSIVE parse_keys(_, _, _, _)
RECURSIVE parse_keys_array(_, _, _, _, _)
RECURSIVE parse_keys_object(_, _, _, _, _)

\* the loop over array.iter().enumerate(), after n items
parse_keys_array(lines, key, array, n, opts) ==
    IF n = 0 THEN lines
    ELSE parse_keys(parse_keys_array(lines, key, array, n - 1, opts),
                    build_key(key, usize_to_string(n - 1), opts.key_separator),
                    array[n], opts)

\* the loop over the object's fields, after n fields
parse_keys_object(lines, key, object, n, opts) ==
    IF n = 0 THEN lines
    ELSE parse_keys(parse_keys_object(lines, key, object, n - 1, opts),
                    build_key(key, object[n][1], opts.key_separator),
                    object[n][2], opts)

parse_keys(lines, key, value, opts) ==
    IF is_array(value) THEN
        IF opts.enumerate_array
        THEN parse_keys_array(lines, key, value.a, Len(value.a), opts)
        ELSE parse_keys(lines, key,
                        JString(array_joined_quoted(value.a, opts)), opts)
    ELSE IF is_object(value) THEN
        parse_keys_object(lines, key, value.o, Len(value.o), opts)
    ELSE Append(lines, EnvVar(trim(key), value))

---------------------------------------------------------------------------
(* impl Display for EnvVar (the same in lib.rs and main.rs)                *)

Display_unescaped(envvar) ==
    LET key == envvar[1]
        value == envvar[2]
    IN CASE value.t = "Null" -> key \o <<"=", "n", "u", "l", "l">>
         [] value.t = "Bool" ->
                key \o <<"=">> \o value_to_string(value)
         [] value.t = "Number" -> key \o <<"=">> \o usize_to_string(value.n)
         [] value.t = "String" ->
                key \o <<"=", QUOTE>> \o value.s \o <<QUOTE>>
         [] OTHER -> <<>>

Display(envvar) ==
    LET key == envvar[1]
        value == envvar[2]
    IN CASE value.t = "Null" -> key \o <<"=", "n", "u", "l", "l">>
         [] value.t = "Bool" ->
                key \o <<"=">> \o value_to_string(value)
         [] value.t = "Number" -> key \o <<"=">> \o usize_to_string(value.n)
         [] value.t = "String" ->
                key \o <<"=", QUOTE>>
                    \o str_replace(value.s, {QUOTE}, <<BSLASH, QUOTE>>)
                    \o <<QUOTE>>
         [] OTHER -> <<>>

\* main.rs: keys.iter().map(ToString::to_string).collect().join("\n")
to_environ(keys) == join([i \in 1..Len(keys) |-> Display(keys[i])], <<LF>>)

---------------------------------------------------------------------------
(* The inputs the parsers are run on                                       *)

MaxCalls == 2       \* calls of parse in one run, over both parsers
MaxArrayLen == 2    \* length of the generated arrays

\* all sequences over S of length lo..hi
SeqsOf(S, lo, hi) == UNION {[1..n -> S] : n \in lo..hi}

Strings ==
    {<<>>, <<"x">>, <<QUOTE>>, <<BSLASH>>, <<LF>>, <<SPACE, "x", SPACE>>,
     <<"a", QUOTE, "b">>, <<"a", BSLASH, "b">>, <<"a", LF, "b">>,
     <<BSLASH, QUOTE>>, <<"x", TAB>>}

ScalarCores ==
    {JNull, JBool(TRUE), JBool(FALSE), JNumber(0), JNumber(1), JNumber(12)}
        \cup {JString(s) : s \in Strings}

ElemScalars ==
    {JNull, JBool(TRUE), JNumber(1), JString(<<"a", QUOTE, BSLASH, "b">>),
     JString(<<"c", LF>>)}

ScalarArrays == {JArray(a) : a \in SeqsOf(ElemScalars, 0, MaxArrayLen)}

MixedElems == {JArray(<<>>), JObject(<< <<<<"x">>, JNumber(2)>> >>), JNumber(1)}

MixedArrays ==
    {JArray(a) : a \in {b \in SeqsOf(MixedElems, 1, MaxArrayLen) :
                           \E i \in 1..Len(b) : b[i].t \in {"Array", "Object"}}}

\* arrays nested in arrays, and strings in arrays, of a fixed shape
OtherArrays ==
    {JArray(<<JString(<<"x">>)>>), JArray(<<JString(<<"x", TAB>>), JNumber(12)>>),
     JArray(<<JArray(<<JNumber(1), JString(<<"y">>)>>)>>),
     JArray(<<JObject(<<>>)>>),
     JArray(<<JBool(FALSE), JNumber(0)>>)}

FieldNames == {<<"a">>, <<>>, <<"b", SPACE>>}
FieldValues == {JNumber(1), JArray(<<>>), JObject(<<>>)}

ObjectCores ==
    {JObject(<<>>)}
        \cup {JObject(<< <<n, v>> >>) : n \in FieldNames, v \in FieldValues}
        \cup {JObject(<< <<n[1], v[1]>>, <<n[2], v[2]>> >>) :
                n \in {m \in FieldNames \X FieldNames : m[1] # m[2]},
                v \in FieldValues \X FieldValues}

ArrayCores == ScalarArrays \cup MixedArrays \cup OtherArrays

Cores == ScalarCores \cup ObjectCores \cup ArrayCores

\* the field names a core is nested under, outermost first
Paths ==
    {<<>>,
     <<<<"a">>>>, <<<<>>>>, <<<<SPACE, "a">>>>, <<<<"a", SPACE>>>>,
     <<<<"a">>, <<"b">>>>, <<<<>>, <<"x">>>>, <<<<"a">>, <<>>>>, <<<<>>, <<>>>>,
     <<<<SPACE>>, <<"a">>>>}

ArrayPaths ==
    {<<>>, <<<<"a">>>>, <<<<SPACE, "a">>>>, <<<<>>, <<"x">>>>}

RECURSIVE Nested(_, _)
Nested(path, core) ==
    IF path = <<>> THEN core
    ELSE JObject(<< <<Head(path), Nested(Tail(path), core)>> >>)

\* the documents of the specification's section 8 and of the tests of lib.rs
Examples ==
    {JObject(<< <<<<"a", "r", "r", "a", "y">>,
                  JArray(<<JNumber(1), JNumber(2), JNumber(3)>>)>> >>),
     JObject(<< <<<<"a", "r", "r", "a", "y">>,
                  JArray(<<JNumber(1),
                           JObject(<< <<<<"x">>, JNumber(2)>> >>)>>)>> >>),
     JObject(<< <<<<"a">>, JNumber(1)>>, <<<<"b">>, JNumber(2)>> >>),
     JObject(<< <<<<"b">>, JNumber(2)>>, <<<<"a">>, JNumber(1)>> >>),
     JObject(<< <<<<"k">>,
                  JString(<<"h", "e", SPACE, "s", "a", "i", "d", SPACE,
                            QUOTE, "h", "i", QUOTE>>)>> >>),
     JArray(<<JObject(<< <<<<"a">>, JNumber(1)>>, <<<<"b">>, JNumber(2)>> >>),
              JArray(<<JNumber(3), JArray(<<JNumber(4)>>)>>),
              JNumber(5)>>)}

Inputs ==
    {Nested(p, c) : p \in Paths, c \in ScalarCores \cup ObjectCores}
        \cup {Nested(p, c) : p \in ArrayPaths, c \in ArrayCores}
        \cup {JArray(<<JNumber(7), c>>) : c \in Cores}
        \cup Examples

KeySeparators == {<<"_", "_">>, <<>>, <<SPACE>>}
ArraySeparators == {<<",">>, <<>>}

AllOptions ==
    {ParseOptions(ks, as, ea) :
        ks \in KeySeparators, as \in ArraySeparators, ea \in BOOLEAN}

---------------------------------------------------------------------------
(* The state machine: a library parser and the binary's parser, built over *)
(* the same options and run on the same document                           *)

Init ==
    /\ json \in Inputs
    /\ options \in AllOptions
    /\ lib_returns = <<>>
    /\ lib_lines = <<>>
    /\ formatted = FALSE
    /\ main_vars = <<>>
    /\ main_returns = <<>>
    /\ environ = <<>>

\* lib.rs JsonParser::parse
LibParse ==
    /\ Len(lib_returns) + Len(main_returns) < MaxCalls
    /\ lib_returns' = Append(lib_returns, parse(json, options))
    /\ UNCHANGED <<json, options, lib_lines, formatted,
                   main_vars, main_returns, environ>>

\* a caller of the library formatting every entry it got
LibFormat ==
    /\ Len(lib_returns) >= 1
    /\ ~formatted
    /\ lib_lines' = [i \in 1..Len(lib_returns[Len(lib_returns)]) |->
                        Display(lib_returns[Len(lib_returns)][i])]
    /\ formatted' = TRUE
    /\ UNCHANGED <<json, options, lib_returns, main_vars, main_returns, environ>>

\* main.rs JsonParser::parse, and the joining of the lines as main does it
MainParse ==
    /\ Len(lib_returns) + Len(main_returns) < MaxCalls
    /\ main_vars' = parse_keys(main_vars, <<>>, json, options)
    /\ main_returns' = Append(main_returns, main_vars')
    /\ environ' = to_environ(main_vars')
    /\ UNCHANGED <<json, options, lib_returns, lib_lines, formatted>>

Next == LibParse \/ LibFormat \/ MainParse

Spec == Init /\ [][Next]_vars

TypeOK ==
    /\ Len(lib_returns) + Len(main_returns) <= MaxCalls
    /\ formatted \in BOOLEAN

---------------------------------------------------------------------------
(* What the claims are stated with: the scalar leaves of a document, each  *)
(* with its position in the tree and the segments of its path, written     *)
(* without the flattener's recursion over keys                             *)

\* p comes before q in the depth-first, pre-order walk of the tree
LexLess(p, q) ==
    \E k \in 1..Len(p) :
        /\ k <= Len(q)
        /\ p[k] < q[k]
        /\ \A m \in 1..(k - 1) : p[m] = q[m]

AnyComplex(array) == \E i \in 1..Len(array) : array[i].t \in {"Array", "Object"}

Enumerated(array, opts) == opts.enumerate_array \/ AnyComplex(array)

\* [pos, segs, value]: pos the child indices from the root, segs the field
\* names and decimal indices from the root, value what the entry carries
RECURSIVE RefLeaves(_, _, _, _)
RefLeaves(v, pos, segs, opts) ==
    IF v.t = "Object" THEN
        UNION {RefLeaves(v.o[i][2], Append(pos, i), Append(segs, v.o[i][1]), opts) :
                 i \in 1..Len(v.o)}
    ELSE IF v.t = "Array" /\ Enumerated(v.a, opts) THEN
        UNION {RefLeaves(v.a[i], Append(pos, i),
                         Append(segs, usize_to_string(i - 1)), opts) :
                 i \in 1..Len(v.a)}
    ELSE IF v.t = "Array" THEN
        {[pos |-> pos, segs |-> segs, value |-> JString(array_joined(v.a, opts))]}
    ELSE {[pos |-> pos, segs |-> segs, value |-> v]}

Leaves == RefLeaves(json, <<>>, <<>>, options)

\* the place of a leaf in the returned sequence, if the order is pre-order
Rank(L) == 1 + Cardinality({M \in Leaves : LexLess(M.pos, L.pos)})

\* s1 + sep + s2 + ... + sep + sn
RECURSIVE RefJoin(_, _)
RefJoin(segs, sep) ==
    IF segs = <<>> THEN <<>>
    ELSE IF Len(segs) = 1 THEN segs[1]
    ELSE segs[1] \o sep \o RefJoin(Tail(segs), sep)

RECURSIVE DropLeadingEmpty(_)
DropLeadingEmpty(segs) ==
    IF segs # <<>> /\ Head(segs) = <<>> THEN DropLeadingEmpty(Tail(segs)) ELSE segs

IsSpace(c) == c \in {SPACE, LF, TAB}

\* k is acc without the whitespace at its two ends, and without anything else gone
IsTrimOf(k, acc) ==
    \E i \in 0..Len(acc) : \E j \in i..Len(acc) :
        /\ k = SubSeq(acc, i + 1, j)
        /\ \A m \in 1..i : IsSpace(acc[m])
        /\ \A m \in (j + 1)..Len(acc) : IsSpace(acc[m])
        /\ k # <<>> => ~IsSpace(k[1]) /\ ~IsSpace(k[Len(k)])

RefTrim(acc) ==
    LET keep == {m \in 1..Len(acc) : ~IsSpace(acc[m])}
    IN IF keep = {} THEN <<>>
       ELSE SubSeq(acc, CHOOSE m \in keep : \A n \in keep : m <= n,
                        CHOOSE m \in keep : \A n \in keep : m >= n)

\* part occurs in whole as a contiguous run
Occurs(part, whole) ==
    \E i \in 0..(Len(whole) - Len(part)) :
        SubSeq(whole, i + 1, i + Len(part)) = part

\* the key the code accumulates along a path: build_key, segment after segment
RECURSIVE AccKey(_, _)
AccKey(segs, sep) ==
    IF segs = <<>> THEN <<>>
    ELSE build_key(AccKey(SubSeq(segs, 1, Len(segs) - 1), sep), segs[Len(segs)], sep)

\* the value reached through objects of a single field, and the key at it
RECURSIVE Innermost(_, _)
Innermost(v, segs) ==
    IF v.t = "Object" /\ Len(v.o) = 1
    THEN Innermost(v.o[1][2], Append(segs, v.o[1][1]))
    ELSE [value |-> v, key |-> AccKey(segs, options.key_separator)]

Inner == Innermost(json, <<>>)

Text_array == <<"a", "r", "r", "a", "y">>

---------------------------------------------------------------------------
(* The claims                                                              *)

Sep2 == <<"_", "_">>

Doc_array_complex ==
    JObject(<< <<Text_array,
                 JArray(<<JNumber(1), JObject(<< <<<<"x">>, JNumber(2)>> >>)>>)>> >>)

(* C1: in the library flattener an array with at least one element that is *)
(* an object or an array is enumerated whatever enumerate_array is: under  *)
(* every key the array is reached at, the result is the concatenation, in  *)
(* index order, of the flattening of element i under                       *)
(* build_key(key, decimal i, key_separator); the document                  *)
(* {"array": [1, {"x": 2}]} with "__" and enumerate_array = false gives    *)
(* exactly (array__0, 1), (array__1__x, 2).                                *)
C1_ComplexArrayEnumerated ==
    \A r \in 1..Len(lib_returns) :
        /\ (Inner.value.t = "Array" /\ AnyComplex(Inner.value.a)) =>
              lib_returns[r] =
                  concat_upto(
                      [i \in 1..Len(Inner.value.a) |->
                          parse_value(Inner.key \o
                                          (IF Inner.key = <<>> THEN <<>>
                                           ELSE options.key_separator)
                                          \o usize_to_string(i - 1),
                                      Inner.value.a[i], options)],
                      Len(Inner.value.a))
        /\ (json = Doc_array_complex /\ options.key_separator = Sep2) =>
              lib_returns[r] =
                  <<EnvVar(Text_array \o Sep2 \o <<"0">>, JNumber(1)),
                    EnvVar(Text_array \o Sep2 \o <<"1">> \o Sep2 \o <<"x">>,
                           JNumber(2))>>

C1_Witness ==
    /\ json = Doc_array_complex
    /\ ~options.enumerate_array
    /\ options.key_separator = Sep2
    /\ Len(lib_returns) >= 1
    /\ Len(lib_returns[1]) = 2
    /\ lib_returns[1][2][2] = JNumber(2)

\* what the specification calls the default text of a scalar
DefaultText(v) ==
    CASE v.t = "Null" -> <<"n", "u", "l", "l">>
      [] v.t = "Bool" ->
            IF v.b THEN <<"t", "r", "u", "e">> ELSE <<"f", "a", "l", "s", "e">>
      [] v.t = "Number" -> usize_to_string(v.n)
      [] v.t = "String" -> v.s

Strip(s) == SelectSeq(s, LAMBDA c : c \notin {BSLASH, QUOTE})

(* C2: with enumerate_array false, an array of scalars gives exactly one   *)
(* entry, under the array's key, whose value is the String made of the     *)
(* default text of every element (a string's raw characters, control       *)
(* characters included), without its backslashes and double quotes, joined *)
(* with array_separator.                                                   *)
C2_CollapsedArrayRawText ==
    \A r \in 1..Len(lib_returns) :
        (/\ Inner.value.t = "Array"
         /\ ~AnyComplex(Inner.value.a)
         /\ ~options.enumerate_array) =>
            lib_returns[r] =
                <<EnvVar(RefTrim(Inner.key),
                         JString(RefJoin([i \in 1..Len(Inner.value.a) |->
                                             Strip(DefaultText(Inner.value.a[i]))],
                                         options.array_separator)))>>

\* the number of entries, an empty array counting for empty_array of them
RECURSIVE RefCount(_, _, _)
RECURSIVE RefCountSum(_, _, _, _)
RefCountSum(children, n, opts, empty_array) ==
    IF n = 0 THEN 0
    ELSE RefCountSum(children, n - 1, opts, empty_array)
            + RefCount(children[n], opts, empty_array)

RefCount(v, opts, empty_array) ==
    IF v.t = "Object" THEN
        RefCountSum([i \in 1..Len(v.o) |-> v.o[i][2]], Len(v.o), opts, empty_array)
    ELSE IF v.t = "Array" /\ v.a = <<>> THEN empty_array
    ELSE IF v.t = "Array" /\ Enumerated(v.a, opts) THEN
        RefCountSum(v.a, Len(v.a), opts, empty_array)
    ELSE 1

\* an empty array or an empty object occurs in v
RECURSIVE HasEmpty(_)
HasEmpty(v) ==
    \/ v.t = "Array" /\ (v.a = <<>> \/ \E i \in 1..Len(v.a) : HasEmpty(v.a[i]))
    \/ v.t = "Object" /\ (v.o = <<>> \/ \E i \in 1..Len(v.o) : HasEmpty(v.o[i][2]))

(* C3, as stated: an empty object or an empty array, at the root or nested *)
(* under any key, for either value of enumerate_array, contributes zero    *)
(* entries to what parse returns.                                          *)
C3_EmptyContributesNothing ==
    \A r \in 1..Len(lib_returns) :
        Len(lib_returns[r]) = RefCount(json, options, 0)

(* C3, amended: an empty object, and an empty array when enumerate_array   *)
(* is true, contribute zero entries; an empty array when enumerate_array   *)
(* is false contributes exactly one entry, whose value is the empty String *)
(* and whose key is the array's key, trimmed.                              *)
C3_EmptyArrayCollapses ==
    \A r \in 1..Len(lib_returns) :
        /\ Len(lib_returns[r]) =
              RefCount(json, options, IF options.enumerate_array THEN 0 ELSE 1)
        /\ Inner.value = JObject(<<>>) => lib_returns[r] = <<>>
        /\ Inner.value = JArray(<<>>) =>
              lib_returns[r] =
                  IF options.enumerate_array THEN <<>>
                  ELSE <<EnvVar(RefTrim(Inner.key), JString(<<>>))>>

C3_Witness ==
    /\ json = JObject(<< <<<<"a">>, JArray(<<>>)>> >>)
    /\ ~options.enumerate_array
    /\ Len(lib_returns) >= 1
    /\ lib_returns[1] = <<EnvVar(<<"a">>, JString(<<>>))>>

(* C4: parse called twice on the same parser, with the same document and   *)
(* the same configuration, returns the second time what it returned the    *)
(* first time, so that the joined output is the same; for the library      *)
(* parser and for the parser of the binary.                                *)
C4_ParseIdempotent ==
    /\ \A r \in 2..Len(lib_returns) : lib_returns[r] = lib_returns[1]
    /\ \A r \in 2..Len(main_returns) :
          /\ main_returns[r] = main_returns[1]
          /\ r = Len(main_returns) => environ = to_environ(main_returns[1])

Doc_nested ==
    JArray(<<JObject(<< <<<<"a">>, JNumber(1)>>, <<<<"b">>, JNumber(2)>> >>),
             JArray(<<JNumber(3), JArray(<<JNumber(4)>>)>>),
             JNumber(5)>>)

Doc_a_b == JObject(<< <<<<"a">>, JNumber(1)>>, <<<<"b">>, JNumber(2)>> >>)
Doc_b_a == JObject(<< <<<<"b">>, JNumber(2)>>, <<<<"a">>, JNumber(1)>> >>)

(* C5: what the library's parse returns is in depth-first pre-order: the   *)
(* entry of a leaf stands at the place the leaf has among all leaves when  *)
(* they are ordered by their positions in the tree (fields in stored       *)
(* order, not sorted; elements by increasing index), so the entries of one *)
(* child are contiguous and precede those of every later child;            *)
(* {a: 1, b: 2} gives [(a, 1), (b, 2)].                                    *)
C5_PreOrder ==
    \A r \in 1..Len(lib_returns) :
        /\ Len(lib_returns[r]) = Cardinality(Leaves)
        /\ \A L \in Leaves :
              /\ lib_returns[r][Rank(L)][2] = L.value
              /\ lib_returns[r][Rank(L)][1] =
                    RefTrim(RefJoin(DropLeadingEmpty(L.segs), options.key_separator))
        /\ json = Doc_a_b =>
              lib_returns[r] = <<EnvVar(<<"a">>, JNumber(1)), EnvVar(<<"b">>, JNumber(2))>>
        /\ json = Doc_b_a =>
              lib_returns[r] = <<EnvVar(<<"b">>, JNumber(2)), EnvVar(<<"a">>, JNumber(1))>>

C5_Witness ==
    /\ json = Doc_nested
    /\ options.key_separator = Sep2
    /\ Len(lib_returns) >= 1
    /\ [i \in 1..Len(lib_returns[1]) |-> lib_returns[1][i][2]] =
          <<JNumber(1), JNumber(2), JNumber(3), JNumber(4), JNumber(5)>>
    /\ lib_returns[1][4][1] = <<"1", "_", "_", "1", "_", "_", "0">>

\* every double quote becomes backslash + double quote, the rest is copied
RECURSIVE EscapedQuotes(_)
EscapedQuotes(s) ==
    IF s = <<>> THEN <<>>
    ELSE (IF Head(s) = QUOTE THEN <<BSLASH, QUOTE>> ELSE <<Head(s)>>)
            \o EscapedQuotes(Tail(s))

Text_he_said_hi ==
    <<"h", "e", SPACE, "s", "a", "i", "d", SPACE, QUOTE, "h", "i", QUOTE>>

Doc_he_said_hi == JObject(<< <<<<"k">>, JString(Text_he_said_hi)>> >>)

(* C6: an entry whose value is a String is formatted as KEY="<value>",     *)
(* the key copied unchanged, every double quote of the value replaced by   *)
(* backslash + double quote and every other character of it (backslashes   *)
(* and newlines too) copied unchanged; key k with value he said "hi" gives *)
(* k="he said \"hi\"".                                                     *)
C6_StringFormatted ==
    formatted =>
        /\ Len(lib_lines) = Len(lib_returns[1])
        /\ \A i \in 1..Len(lib_lines) :
              lib_returns[1][i][2].t = "String" =>
                  /\ lib_lines[i] =
                        lib_returns[1][i][1] \o <<"=", QUOTE>>
                            \o EscapedQuotes(lib_returns[1][i][2].s) \o <<QUOTE>>
                  /\ Len(lib_lines[i]) =
                        Len(lib_returns[1][i][1]) + 3 + Len(lib_returns[1][i][2].s)
                            + Len(SelectSeq(lib_returns[1][i][2].s,
                                            LAMBDA c : c = QUOTE))
        /\ json = Doc_he_said_hi =>
              lib_lines =
                  << <<"k", "=", QUOTE, "h", "e", SPACE, "s", "a", "i", "d", SPACE,
                       BSLASH, QUOTE, "h", "i", BSLASH, QUOTE, QUOTE>> >>

C6_Witness ==
    /\ formatted
    /\ json = Doc_he_said_hi
    /\ Len(lib_lines) = 1
    /\ Len(lib_lines[1]) = Len(Text_he_said_hi) + 6

(* C7, as stated: the key of every entry is its path (field names, and     *)
(* decimal indices of enumerated arrays) joined with key_separator: for    *)
(* every path s1..sn, empty field names included, the accumulated key is   *)
(* s1 + sep + ... + sep + sn, and it is empty only at the root.            *)
C7_KeyIsJoinedPath ==
    \A r \in 1..Len(lib_returns) :
        \A L \in Leaves :
            /\ AccKey(L.segs, options.key_separator)
                  = RefJoin(L.segs, options.key_separator)
            /\ AccKey(L.segs, options.key_separator) = <<>> => L.segs = <<>>
            /\ lib_returns[r][Rank(L)][1]
                  = RefTrim(RefJoin(L.segs, options.key_separator))

(* C7, amended: build_key gives the segment when the prefix is empty and   *)
(* prefix + sep + segment otherwise, so the accumulated key of a path is   *)
(* the join with sep of the segments left once the leading empty segments  *)
(* of the path are dropped (s1 + sep + ... + sn when s1 is not empty); it  *)
(* is empty exactly when every segment is empty; and the key of the entry  *)
(* is the accumulated key without the whitespace at its two ends.          *)
C7_KeyIsJoinedPathAfterEmptyPrefix ==
    \A r \in 1..Len(lib_returns) :
        \A L \in Leaves :
            LET sep == options.key_separator
                acc == AccKey(L.segs, sep)
            IN /\ acc = RefJoin(DropLeadingEmpty(L.segs), sep)
               /\ L.segs # <<>> /\ L.segs[1] # <<>> => acc = RefJoin(L.segs, sep)
               /\ acc = <<>> <=> \A i \in 1..Len(L.segs) : L.segs[i] = <<>>
               /\ lib_returns[r][Rank(L)][1] = RefTrim(acc)

C7_Witness ==
    /\ json = JObject(<< <<<<>>, JObject(<< <<<<"x">>, JNumber(1)>> >>)>> >>)
    /\ options.key_separator = Sep2
    /\ Len(lib_returns) >= 1
    /\ lib_returns[1] = <<EnvVar(<<"x">>, JNumber(1))>>

(* C8, as stated: the trimming at scalar emission never touches the field  *)
(* names: every field name on the path to a scalar, one that begins or     *)
(* ends with whitespace included, is found verbatim and in full in the key *)
(* of the scalar's entry.                                                  *)
C8_FieldNamesUntouched ==
    \A r \in 1..Len(lib_returns) :
        \A L \in Leaves :
            \A i \in 1..Len(L.segs) : Occurs(L.segs[i], lib_returns[r][Rank(L)][1])

(* C8, amended: the trimming removes the whitespace at the two ends of the *)
(* accumulated key and nothing else, whether that whitespace comes from a  *)
(* field name or from the separator; a key that neither begins nor ends    *)
(* with whitespace is emitted as accumulated, every field name of its path *)
(* verbatim in it.                                                         *)
C8_OnlyEndsTrimmed ==
    \A r \in 1..Len(lib_returns) :
        \A L \in Leaves :
            LET acc == AccKey(L.segs, options.key_separator)
                key == lib_returns[r][Rank(L)][1]
            IN /\ IsTrimOf(key, acc)
               /\ (acc = <<>> \/ (~IsSpace(acc[1]) /\ ~IsSpace(acc[Len(acc)]))) =>
                     /\ key = acc
                     /\ \A i \in 1..Len(L.segs) : Occurs(L.segs[i], key)

C8_Witness ==
    /\ json = JObject(<< <<<<"a", SPACE>>, JNumber(1)>> >>)
    /\ Len(lib_returns) >= 1
    /\ lib_returns[1] = <<EnvVar(<<"a">>, JNumber(1))>>

(* C9: every entry the library's parse returns carries a Null, a Bool, a   *)
(* Number or a String, never an Array or an Object, so the formatter's     *)
(* branch for anything else is not taken and no formatted line is empty.   *)
C9_EntriesAreScalars ==
    /\ \A r \in 1..Len(lib_returns) :
          \A i \in 1..Len(lib_returns[r]) :
              lib_returns[r][i][2].t \in {"Null", "Bool", "Number", "String"}
    /\ formatted => \A i \in 1..Len(lib_lines) : lib_lines[i] # <<>>

C9_Witness ==
    /\ json = Doc_nested
    /\ formatted
    /\ Len(lib_lines) = Cardinality(Leaves)
    /\ Len(lib_lines) >= 2

(* C10: the first call of the binary's parser on a fresh parser returns    *)
(* the entries the library's parser returns, for every document and every  *)
(* configuration.                                                          *)
C10_BinaryMatchesLibrary ==
    (Len(lib_returns) >= 1 /\ Len(main_returns) >= 1) =>
        main_returns[1] = lib_returns[1]

===========================================================================
